---------------------------- MODULE Spec2Model ----------------------------
(***************************************************************************)
(* Model of local_server/convert_server.py: the POST /convert handler      *)
(* (ConvertHandler.do_POST) with its engine selection, body ingestion,     *)
(* temporary directory scope, local soffice run and the remote (Adobe PDF  *)
(* Services) workflow with status polling.                                 *)
(*                                                                         *)
(* One request is handled at a time; when the handler has returned the     *)
(* server takes the next request (NextRequest).  Header values, the        *)
(* environment and the answers of the remote service are inputs drawn      *)
(* from small sets at the step that reads them.                            *)
(***************************************************************************)
EXTENDS Integers, Sequences, FiniteSets, TLC

(***************************************************************************)
(* Bounds of the model and constants of the program.                       *)
(***************************************************************************)
\* largest declared Content-Length the model enumerates
MaxLen == 2
\* number of handler threads the server runs at once
MaxThreads == 2

\* _adobe_poll_status(timeout_seconds=180)
TimeoutSeconds == 180
\* time.sleep(1.0) between polls
SleepSeconds == 1
\* _http_request(..., timeout=30) of one status poll
PollCallTimeout == 30
\* rfile.read(min(1024 * 1024, remaining))
ChunkSize == 1048576
\* result.stderr.decode(...)[:1000]
StderrLimit == 1000

\* a header or query parameter that is not present (headers.get -> None)
NoHeader == "<none>"
\* os.environ.get(...) of a variable that is not set
None == "<None>"

(***************************************************************************)
(* The inputs the model draws from.                                        *)
(***************************************************************************)
Paths == {"/convert", "/other"}
\* first value of the query parameter "target" (parse_qs drops blank values)
RawTargets == {NoHeader, "", "docx", " DOCX ", "pptx", "xlsx", "ppt", "pdf", "txt"}
\* Content-Length: absent, not a number, or the decimal text of a number
RawLengths == {[kind |-> "absent", val |-> 0], [kind |-> "junk", val |-> 0]}
              \cup {[kind |-> "num", val |-> n] : n \in -1 .. MaxLen}
RawFilenames == {NoHeader, "report.pdf", "SCAN.PDF", "notes.txt", ".pdf", "a/b.pdf"}
RawExts == {NoHeader, "", "pdf", " PDF ", "x/y"}
RawEngines == {NoHeader, "adobe", " Adobe ", "libreoffice", "LibreOffice "}
EnvValues == {None, "", "set"}

\* how long one status poll takes (anything up to its own timeout)
PollDurations == {0, PollCallTimeout}
\* number of non-terminal poll results the remote job gives before a terminal one
JobLens == {0, 2, 6}
\* how the remote job ends: with a success status that carries a download
\* URI or none, with a failure status, or never (it stays non-terminal)
JobEnds == {"success_uri", "success_nouri", "failure", "never"}
\* raw "status" fields of a status response (absent -> "")
NonTerminalStatuses == {"", "in progress"}
SuccessStatuses == {"done", "Succeeded", "SUCCESS"}
FailureStatuses == {"failed", "Error"}
\* error.message of a failed job: absent or given
ErrorMessages == {None, "quota exceeded"}
DownloadBodies == {"docA", "docB"}
\* length of the soffice stderr text
StderrLens == {0, 5, StderrLimit, StderrLimit + 1}

(***************************************************************************)
(* String helpers: str.strip().lower(), str.replace, os.path.splitext.     *)
(***************************************************************************)
\* s.strip().lower() on the strings the model draws
StripLower(s) ==
    CASE s = " DOCX " -> "docx"
      [] s = " PDF " -> "pdf"
      [] s = " Adobe " -> "adobe"
      [] s = "LibreOffice " -> "libreoffice"
      [] s = "Succeeded" -> "succeeded"
      [] s = "SUCCESS" -> "success"
      [] s = "Error" -> "error"
      [] OTHER -> s

\* filename.replace("/", "_")
ReplaceSlash(s) == IF s = "a/b.pdf" THEN "a_b.pdf" ELSE s

\* os.path.splitext(name)[1].lstrip("."): leading dots are not an extension
SplitExt(name) ==
    CASE name = "report.pdf" -> "pdf"
      [] name = "a_b.pdf" -> "pdf"
      [] name = "SCAN.PDF" -> "PDF"
      [] name = "notes.txt" -> "txt"
      [] OTHER -> ""

\* x or y, for strings: the empty string is falsy
OrElse(x, y) == IF x = "" THEN y ELSE x

\* headers.get(name, default)
HeaderGet(raw, default) == IF raw = NoHeader THEN default ELSE raw

\* truthiness of an environment value: None and "" are falsy
Truthy(v) == v # None /\ v # ""

Min(a, b) == IF a < b THEN a ELSE b

(***************************************************************************)
(* Engine selection (do_POST, lines 220-234).                              *)
(***************************************************************************)
AdobeTargets == {"docx", "pptx", "xlsx"}

\* faulty variant: the client secret is not looked at
CanUseAdobe_NoSecret(id, secret, ext, tgt) ==
    Truthy(id) /\ ext = "pdf" /\ tgt \in AdobeTargets

\* can_use_adobe (lines 220-225)
CanUseAdobe(id, secret, ext, tgt) ==
    Truthy(id) /\ Truthy(secret) /\ ext = "pdf" /\ tgt \in AdobeTargets

\* faulty variant: an ineligible request for adobe falls back to the local engine
EngineChoice_Fallback(engine, can) ==
    IF engine = "adobe" THEN (IF can THEN "adobe" ELSE "libreoffice")
    ELSE IF engine = "libreoffice" THEN "libreoffice"
    ELSE IF can THEN "adobe" ELSE "libreoffice"

\* the three branches on requested_engine: "reject", "adobe" or "libreoffice"
EngineChoice(engine, can) ==
    IF engine = "adobe" THEN (IF can THEN "adobe" ELSE "reject")
    ELSE IF engine = "libreoffice" THEN "libreoffice"
    ELSE IF can THEN "adobe" ELSE "libreoffice"

(***************************************************************************)
(* State.                                                                  *)
(***************************************************************************)
VARIABLES
    pc,                  \* position of the handler
    path,                \* parsed.path
    target,              \* normalised target format
    length,              \* declared Content-Length
    source_ext,          \* source extension
    adobe_client_id,     \* PDF_SERVICES_CLIENT_ID as read
    adobe_client_secret, \* PDF_SERVICES_CLIENT_SECRET as read
    requested_engine,    \* normalised X-Conversion-Engine
    use_adobe,           \* the engine decision
    soffice_exists,      \* os.path.exists(soffice): "unread", "yes", "no"
    soffice,             \* the binary path, where the local engine reads it
    tmpdir,              \* the TemporaryDirectory: "none", "exists", "deleted"
    files,               \* files in tmpdir: name -> content
    remaining,           \* bytes still to read
    total_read,          \* bytes read and written
    delivered,           \* bytes the request stream has delivered
    read_end,            \* how the read loop ended
    exit_kind,           \* how the with block is being left
    export_resp,         \* what _adobe_export_pdf read from the response
    status_url,          \* URL polled for the job status
    clock,               \* seconds since _adobe_poll_status was entered
    last_error,          \* an HTTPError was stored by the poll loop
    job_len,             \* non-terminal results the remote job gives first
    job_end,             \* how the remote job ends
    last_poll,           \* result of the most recent status poll
    saw_http_error,      \* some status poll ended in an HTTPError
    reqs,                \* requests issued to the remote service, per step
    served,              \* bytes the remote service served for download
    data,                \* the converted bytes held by the handler
    proc_runs,           \* soffice subprocesses started
    cmd,                 \* the argument list given to subprocess.run
    result,              \* what the subprocess left behind
    responses,           \* HTTP responses sent for this request
    raised,              \* an exception left do_POST
    thread_pc,           \* per server thread: position in the with block
    thread_tmpdir,       \* per server thread: name of its directory, 0 if none
    thread_dirs,         \* per server thread: directories made for its request
    disk,                \* directory name -> files in it, or Absent
    foreign_access       \* a thread touched a file another request wrote

\* the variables of one request, as its handler sees them
handlerVars == <<pc, path, target, length, source_ext, adobe_client_id,
                 adobe_client_secret, requested_engine, use_adobe,
                 soffice_exists, soffice, tmpdir, files, remaining, total_read,
                 read_end, exit_kind, export_resp, status_url, clock,
                 last_error, job_len, job_end, last_poll, saw_http_error, reqs,
                 served, data, proc_runs, cmd, result, responses, raised,
                 delivered>>

\* the variables of the server's threads and the directories they make
threadVars == <<thread_pc, thread_tmpdir, thread_dirs, disk, foreign_access>>

vars == <<handlerVars, threadVars>>

\* an empty directory; a file input.<e> is the entry e of the function
NoFiles == [e \in {} |-> ""]

\* the result of a status poll, as the handler saw it
Poll(kind, status, uri, message) ==
    [kind |-> kind, status |-> status, uri |-> uri, message |-> message]

NoPoll == Poll("none", "", FALSE, None)

RemoteSteps == {"token", "asset", "upload", "export", "poll", "download"}

\* the three things _adobe_export_pdf reads from the export response
ExportResp(location, statusUrl, request_id) ==
    [location |-> location, statusUrl |-> statusUrl, request_id |-> request_id]

NoExportResp == ExportResp(None, None, None)

\* the subprocess result: exit code, length of its stderr text, and whether
\* it wrote the file input.<target>
Result(returncode, stderr_len, wrote) ==
    [returncode |-> returncode, stderr_len |-> stderr_len, wrote |-> wrote]

NoResult == Result("none", 0, FALSE)

\* the server's handler threads, and the names mkdtemp can draw
Threads == 1 .. MaxThreads
DirNames == 1 .. MaxThreads + 1
NoDir == 0
\* no directory exists; a directory is an entry name -> set of files
NoDirs == [d \in {} |-> {}]

\* the variables of the request head (routing, parameters, selection)
headVars == <<path, target, length, source_ext, adobe_client_id,
              adobe_client_secret, requested_engine, use_adobe, soffice_exists,
              soffice>>
\* the variables of the temporary directory and the body read loop
bodyVars == <<tmpdir, files, remaining, total_read, read_end, delivered>>
\* the variables of the remote workflow
remoteVars == <<export_resp, status_url, clock, last_error, job_len, job_end,
                last_poll, saw_http_error, reqs, served>>

Init ==
    /\ pc = "idle"
    /\ path = ""
    /\ target = ""
    /\ length = 0
    /\ source_ext = ""
    /\ adobe_client_id = None
    /\ adobe_client_secret = None
    /\ requested_engine = ""
    /\ use_adobe = FALSE
    /\ soffice_exists = "unread"
    /\ soffice = None
    /\ tmpdir = "none"
    /\ files = NoFiles
    /\ remaining = 0
    /\ total_read = 0
    /\ delivered = 0
    /\ read_end = "none"
    /\ exit_kind = "none"
    /\ export_resp = NoExportResp
    /\ status_url = None
    /\ clock = 0
    /\ last_error = FALSE
    /\ job_len = 0
    /\ job_end = "never"
    /\ last_poll = NoPoll
    /\ saw_http_error = FALSE
    /\ reqs = [s \in RemoteSteps |-> 0]
    /\ served = None
    /\ data = None
    /\ proc_runs = 0
    /\ cmd = << >>
    /\ result = NoResult
    /\ responses = << >>
    /\ raised = FALSE
    /\ thread_pc = [t \in Threads |-> "idle"]
    /\ thread_tmpdir = [t \in Threads |-> NoDir]
    /\ thread_dirs = [t \in Threads |-> 0]
    /\ disk = NoDirs
    /\ foreign_access = FALSE

(***************************************************************************)
(* Responses.  send_error(code, message) and the 200 response both send    *)
(* one HTTP response; a message is a kind with up to two numbers and a     *)
(* text.                                                                   *)
(***************************************************************************)
Msg(kind, a, b, text) == [kind |-> kind, a |-> a, b |-> b, text |-> text]

Response(status, msg, body) == [status |-> status, msg |-> msg, body |-> body]

SendError(status, msg) ==
    responses' = Append(responses, Response(status, msg, None))

\* leave the with block by return, after an error response sent inside it
ReturnInWith == pc' = "exit_with" /\ exit_kind' = "return"

\* leave the with block by an exception nothing in do_POST catches
RaiseInWith == pc' = "exit_with" /\ exit_kind' = "raise"

(***************************************************************************)
(* Routing and the target parameter (do_POST, lines 183-197).              *)
(***************************************************************************)
\* faulty variant: every path is served
KnownPath_Any(p) == TRUE

\* parsed.path != "/convert" is answered with 404
KnownPath(p) == p = "/convert"

Route ==
    /\ pc = "idle"
    /\ \E p \in Paths, t \in RawTargets :
          /\ path' = p
          /\ IF ~KnownPath(p)
             THEN /\ SendError(404, Msg("Not Found", 0, 0, ""))
                  /\ pc' = "returned"
                  /\ target' = target
             ELSE LET tg == StripLower(HeaderGet(t, "")) IN
                  /\ target' = tg
                  /\ IF tg = ""
                     THEN /\ SendError(400, Msg("Missing target", 0, 0, ""))
                          /\ pc' = "returned"
                     ELSE /\ pc' = "parse_length"
                          /\ UNCHANGED responses
    /\ UNCHANGED <<length, source_ext, adobe_client_id, adobe_client_secret,
                   requested_engine, use_adobe, soffice_exists, soffice>>
    /\ UNCHANGED <<bodyVars, remoteVars, exit_kind, data, proc_runs, cmd, result, raised>>
    /\ UNCHANGED threadVars

(***************************************************************************)
(* Content-Length (do_POST, lines 199-209).                                *)
(***************************************************************************)
\* faulty variant: only a length of exactly 0 is refused
EmptyBody_ZeroOnly(n) == n = 0

\* if length <= 0
EmptyBody(n) == n <= 0

ParseLength ==
    /\ pc = "parse_length"
    /\ \E raw \in RawLengths :
          \* a missing header reads as "0"; int() of a non-number raises
          LET n == IF raw.kind = "num" THEN raw.val ELSE 0 IN
          IF raw.kind = "junk"
          THEN /\ SendError(400, Msg("Invalid Content-Length", 0, 0, ""))
               /\ pc' = "returned"
               /\ length' = length
          ELSE IF EmptyBody(n)
          THEN /\ SendError(400, Msg("Empty body", 0, 0, ""))
               /\ pc' = "returned"
               /\ length' = n
          ELSE /\ length' = n
               /\ pc' = "select"
               /\ UNCHANGED responses
    /\ UNCHANGED <<path, target, source_ext, adobe_client_id,
                   adobe_client_secret, requested_engine, use_adobe,
                   soffice_exists, soffice>>
    /\ UNCHANGED <<bodyVars, remoteVars, exit_kind, data, proc_runs, cmd, result, raised>>
    /\ UNCHANGED threadVars

(***************************************************************************)
(* Source extension and engine selection (do_POST, lines 211-234).         *)
(***************************************************************************)
SourceExt(rawName, rawExt) ==
    LET filename == ReplaceSlash(HeaderGet(rawName, "document"))
        header_ext == StripLower(HeaderGet(rawExt, ""))
    IN  OrElse(OrElse(header_ext, SplitExt(filename)), "bin")

SelectEngine ==
    /\ pc = "select"
    /\ \E fn \in RawFilenames, he \in RawExts, eng \in RawEngines,
          id \in EnvValues, secret \in EnvValues :
          LET ext == SourceExt(fn, he)
              engine == StripLower(HeaderGet(eng, ""))
              choice == EngineChoice(engine, CanUseAdobe(id, secret, ext, target))
          IN  /\ source_ext' = ext
              /\ adobe_client_id' = id
              /\ adobe_client_secret' = secret
              /\ requested_engine' = engine
              /\ IF choice = "reject"
                 THEN /\ SendError(400, Msg("Adobe conversion is not available", 0, 0, ""))
                      /\ pc' = "returned"
                      /\ use_adobe' = use_adobe
                 ELSE /\ use_adobe' = (choice = "adobe")
                      /\ pc' = "check_soffice"
                      /\ UNCHANGED responses
    /\ UNCHANGED <<path, target, length, soffice_exists, soffice>>
    /\ UNCHANGED <<bodyVars, remoteVars, exit_kind, data, proc_runs, cmd, result, raised>>
    /\ UNCHANGED threadVars

(***************************************************************************)
(* The local binary (do_POST, lines 245-248): its existence is looked at   *)
(* only when the local engine was selected.                                *)
(***************************************************************************)
\* shutil.which("soffice") names a file that exists; the fallback path may
\* or may not exist
WhichSoffice == "/usr/bin/soffice"
FallbackSoffice == "/Applications/LibreOffice.app/Contents/MacOS/soffice"
SofficePaths == {WhichSoffice, FallbackSoffice}

\* faulty variant: the binary is looked for whatever the engine
ChecksBinary_Always(adobe) == TRUE

\* "not use_adobe and ...": os.path.exists runs only for the local engine
ChecksBinary(adobe) == ~adobe

CheckSoffice ==
    /\ pc = "check_soffice"
    /\ IF ~ChecksBinary(use_adobe)
       THEN /\ pc' = "mktemp"
            /\ UNCHANGED <<soffice_exists, soffice, responses>>
       ELSE \E sp \in SofficePaths, exists \in BOOLEAN :
              /\ sp = WhichSoffice => exists
              /\ soffice' = sp
              /\ soffice_exists' = IF exists THEN "yes" ELSE "no"
              /\ IF exists
                 THEN pc' = "mktemp" /\ UNCHANGED responses
                 ELSE /\ SendError(500, Msg("LibreOffice soffice not found in PATH", 0, 0, ""))
                      /\ pc' = "returned"
    /\ UNCHANGED <<path, target, length, source_ext, adobe_client_id,
                   adobe_client_secret, requested_engine, use_adobe>>
    /\ UNCHANGED <<bodyVars, remoteVars, exit_kind, data, proc_runs, cmd, result, raised>>
    /\ UNCHANGED threadVars

(***************************************************************************)
(* The temporary directory and the input file (do_POST, lines 250-252).    *)
(* open(input_path, "wb") raises when the extension names a directory      *)
(* that does not exist (X-File-Ext is not sanitised).                      *)
(***************************************************************************)
HasSeparator(ext) == ext = "x/y"

MakeTmpDir ==
    /\ pc = "mktemp"
    /\ tmpdir' = "exists"
    /\ IF HasSeparator(source_ext)
       THEN /\ RaiseInWith
            /\ UNCHANGED <<files, remaining, total_read>>
       ELSE /\ files' = (source_ext :> "partial")
            /\ remaining' = length
            /\ total_read' = 0
            /\ pc' = "read_body"
            /\ UNCHANGED exit_kind
    /\ UNCHANGED <<headVars, remoteVars, read_end, delivered, data, proc_runs, cmd, result,
                   responses, raised>>
    /\ UNCHANGED threadVars

(***************************************************************************)
(* The body read loop (do_POST, lines 254-265).                            *)
(***************************************************************************)
\* rfile.read returned a chunk of k bytes
ReadChunk ==
    /\ pc = "read_body"
    /\ remaining > 0
    /\ \E k \in 1 .. Min(ChunkSize, remaining) :
          /\ delivered' = delivered + k
          /\ total_read' = total_read + k
          /\ remaining' = remaining - k
          /\ IF remaining - k > 0
             THEN pc' = "read_body" /\ UNCHANGED read_end
             ELSE pc' = "check_body" /\ read_end' = "complete"
    /\ UNCHANGED <<headVars, remoteVars, tmpdir, files, exit_kind, data,
                   proc_runs, cmd, result, responses, raised>>
    /\ UNCHANGED threadVars

\* rfile.read returned no bytes: the stream ended
ReadEOF ==
    /\ pc = "read_body"
    /\ remaining > 0
    /\ read_end' = "eof"
    /\ pc' = "check_body"
    /\ UNCHANGED <<headVars, remoteVars, tmpdir, files, remaining, total_read,
                   delivered, exit_kind, data, proc_runs, cmd, result, responses, raised>>
    /\ UNCHANGED threadVars

\* rfile.read raised socket.timeout, which the loop catches
ReadTimeout ==
    /\ pc = "read_body"
    /\ remaining > 0
    /\ read_end' = "timeout"
    /\ pc' = "check_body"
    /\ UNCHANGED <<headVars, remoteVars, tmpdir, files, remaining, total_read,
                   delivered, exit_kind, data, proc_runs, cmd, result, responses, raised>>
    /\ UNCHANGED threadVars

\* rfile.read raised another OSError (connection reset): nothing catches it
ReadRaises ==
    /\ pc = "read_body"
    /\ remaining > 0
    /\ read_end' = "error"
    /\ RaiseInWith
    /\ UNCHANGED <<headVars, remoteVars, tmpdir, files, remaining, total_read,
                   delivered, data, proc_runs, cmd, result, responses, raised>>
    /\ UNCHANGED threadVars

(***************************************************************************)
(* The length check after the loop (do_POST, lines 266-269).               *)
(***************************************************************************)
BodyComplete(read, declared) == ~(read < declared)

\* faulty variant: the two numbers of the message are swapped
IncompleteMsg_Swapped(read, declared) ==
    Msg("Incomplete request body", declared, read, "")

\* the two numbers of "Incomplete request body: {total_read}/{length} bytes"
IncompleteMsg(read, declared) ==
    Msg("Incomplete request body", read, declared, "")

CheckBody ==
    /\ pc = "check_body"
    /\ IF BodyComplete(total_read, length)
       THEN /\ files' = (source_ext :> "body")
            /\ pc' = IF use_adobe THEN "token" ELSE "run_soffice"
            /\ UNCHANGED <<responses, exit_kind>>
       ELSE /\ SendError(400, IncompleteMsg(total_read, length))
            /\ ReturnInWith
            /\ UNCHANGED files
    /\ UNCHANGED <<headVars, remoteVars, tmpdir, remaining, total_read,
                   read_end, delivered, data, proc_runs, cmd, result, raised>>
    /\ UNCHANGED threadVars

(***************************************************************************)
(* Leaving the with block: TemporaryDirectory.__exit__ removes the         *)
(* directory and everything in it, then control goes where the block was   *)
(* left to: on to the 200 response, out of do_POST by return, or out of    *)
(* do_POST with the exception.                                             *)
(***************************************************************************)
\* faulty variant: the directory survives an exception
Cleanup_KeepOnRaise ==
    IF exit_kind = "raise"
    THEN UNCHANGED <<tmpdir, files>>
    ELSE tmpdir' = "deleted" /\ files' = NoFiles

\* faulty variant: the directory survives the normal end of the block, as
\* when the 200 response is sent from inside it
Cleanup_KeepOnNormal ==
    IF exit_kind = "normal"
    THEN UNCHANGED <<tmpdir, files>>
    ELSE tmpdir' = "deleted" /\ files' = NoFiles

\* TemporaryDirectory.__exit__
Cleanup == tmpdir' = "deleted" /\ files' = NoFiles

ExitWith ==
    /\ pc = "exit_with"
    /\ Cleanup
    /\ pc' = IF exit_kind = "normal" THEN "send_ok" ELSE "returned"
    /\ raised' = (exit_kind = "raise")
    /\ UNCHANGED <<headVars, remoteVars, remaining, total_read, read_end,
                   delivered, exit_kind, data, proc_runs, cmd, result, responses>>
    /\ UNCHANGED threadVars

(***************************************************************************)
(* The 200 response (do_POST, lines 336-344).                              *)
(***************************************************************************)
\* self.wfile.write(data)
OkBody(bytes) == bytes

SendOk ==
    /\ pc = "send_ok"
    /\ responses' = Append(responses, Response(200, Msg("OK", 0, 0, ""), OkBody(data)))
    /\ pc' = "returned"
    /\ UNCHANGED <<headVars, bodyVars, remoteVars, exit_kind, data, proc_runs, cmd, result,
                   raised>>
    /\ UNCHANGED threadVars

(***************************************************************************)
(* The local engine (do_POST, lines 289-334).                              *)
(***************************************************************************)
\* a command-line argument is the tuple of the parts its text is made of
Arg(text) == <<text>>

\* the name of the TemporaryDirectory of this request
TmpDirName == "/tmp/tmpdir"

\* os.path.join(tmpdir, f"input.{source_ext}")
InputPath(dir, ext) == <<dir, "/input.", ext>>

\* filter_target (lines 289-295)
FilterTarget(tgt) ==
    IF tgt = "docx" THEN "docx:MS Word 2007 XML"
    ELSE IF tgt = "xlsx" THEN "xlsx:Calc MS Excel 2007 XML"
    ELSE IF tgt = "pptx" THEN "pptx:Impress MS PowerPoint 2007 XML"
    ELSE tgt

\* the import filter of lines 309-315, None when nothing is inserted
InFilter(ext, tgt) ==
    IF ext # "pdf" THEN None
    ELSE IF tgt \in {"ppt", "pptx"} THEN "--infilter=impress_pdf_import"
    ELSE IF tgt = "docx" THEN "--infilter=writer_pdf_import"
    ELSE IF tgt = "xlsx" THEN "--infilter=calc_pdf_import"
    ELSE None

\* list.index(x): the first position of x
IndexOf(seq, x) ==
    CHOOSE i \in 1 .. Len(seq) : seq[i] = x /\ \A j \in 1 .. i - 1 : seq[j] # x

\* faulty variant: the argument goes after the one it should precede
InsertBefore_After(seq, x, y) ==
    LET i == IndexOf(seq, x)
    IN  SubSeq(seq, 1, i) \o <<y>> \o SubSeq(seq, i + 1, Len(seq))

\* cmd.insert(cmd.index(x), y)
InsertBefore(seq, x, y) ==
    LET i == IndexOf(seq, x)
    IN  SubSeq(seq, 1, i - 1) \o <<y>> \o SubSeq(seq, i, Len(seq))

\* cmd (lines 297-315)
Cmd(binary, ext, tgt, dir) ==
    LET base == <<Arg(binary), Arg("--headless"), Arg("--nologo"),
                  Arg("--nolockcheck"), Arg("--norestore"), Arg("--convert-to"),
                  Arg(FilterTarget(tgt)), Arg("--outdir"), Arg(dir),
                  InputPath(dir, ext)>>
    IN  IF InFilter(ext, tgt) = None THEN base
        ELSE InsertBefore(base, Arg("--convert-to"), Arg(InFilter(ext, tgt)))

\* faulty variant: the text is not cut
StderrDetail_Whole(n) ==
    Msg("LibreOffice conversion failed", IF n = 0 THEN 0 ELSE 1, n, "")

\* result.stderr.decode(...)[:1000]: the characters a..b of a text of n
StderrDetail(n) ==
    Msg("LibreOffice conversion failed", IF n = 0 THEN 0 ELSE 1, Min(n, StderrLimit), "")

\* subprocess.run could not start the binary: OSError, which nothing catches
SofficeRaises ==
    /\ pc = "run_soffice"
    /\ proc_runs' = proc_runs + 1
    /\ cmd' = Cmd(soffice, source_ext, target, TmpDirName)
    /\ RaiseInWith
    /\ UNCHANGED <<headVars, bodyVars, remoteVars, data, result, responses,
                   raised>>
    /\ UNCHANGED threadVars

\* the subprocess ran and exited with a non-zero code
SofficeFails ==
    /\ pc = "run_soffice"
    /\ proc_runs' = proc_runs + 1
    /\ cmd' = Cmd(soffice, source_ext, target, TmpDirName)
    /\ \E n \in StderrLens :
          /\ result' = Result("nonzero", n, FALSE)
          /\ SendError(500, StderrDetail(n))
    /\ ReturnInWith
    /\ UNCHANGED <<headVars, bodyVars, remoteVars, data, raised>>
    /\ UNCHANGED threadVars

\* the subprocess exited with code 0, having written input.<target> or not
SofficeExitsZero ==
    /\ pc = "run_soffice"
    /\ proc_runs' = proc_runs + 1
    /\ cmd' = Cmd(soffice, source_ext, target, TmpDirName)
    /\ \E wrote \in BOOLEAN :
          /\ result' = Result("zero", 0, wrote)
          /\ files' = IF wrote THEN (target :> "converted") @@ files ELSE files
    /\ pc' = "check_output"
    /\ UNCHANGED <<headVars, remoteVars, tmpdir, remaining, total_read,
                   read_end, delivered, exit_kind, data, responses, raised>>
    /\ UNCHANGED threadVars

\* os.path.exists(output_path) and the read of the output (lines 328-334)
CheckOutput ==
    /\ pc = "check_output"
    /\ IF target \in DOMAIN files
       THEN /\ data' = files[target]
            /\ pc' = "exit_with"
            /\ exit_kind' = "normal"
            /\ UNCHANGED responses
       ELSE /\ SendError(500, Msg("Converted file not found", 0, 0, ""))
            /\ ReturnInWith
            /\ UNCHANGED data
    /\ UNCHANGED <<headVars, bodyVars, remoteVars, proc_runs, cmd, result, raised>>
    /\ UNCHANGED threadVars

(***************************************************************************)
(* The remote engine (do_POST, lines 271-287).  Every exception of a       *)
(* remote step is caught by the except clause of line 285, which sends a   *)
(* 500 and returns from inside the with block.                             *)
(***************************************************************************)
\* faulty variant: the return after send_error is missing
RemoteFail_NoReturn(text) ==
    /\ SendError(500, Msg("Adobe PDF Services conversion failed", 0, 0, text))
    /\ UNCHANGED <<pc, exit_kind>>

RemoteFail(text) ==
    /\ SendError(500, Msg("Adobe PDF Services conversion failed", 0, 0, text))
    /\ ReturnInWith

Issue(step) == reqs' = [reqs EXCEPT ![step] = @ + 1]

\* _adobe_access_token: the answer carries a token, carries none, or the
\* request fails in the transport
Token ==
    /\ pc = "token"
    /\ Issue("token")
    /\ \/ pc' = "asset" /\ UNCHANGED <<responses, exit_kind>>
       \/ RemoteFail("Adobe token response missing access_token.")
       \/ RemoteFail("transport error")
    /\ UNCHANGED <<headVars, bodyVars, status_url, export_resp, clock, last_error, job_len,
                   job_end, last_poll, saw_http_error, served, data, proc_runs, cmd, result,
                   raised>>
    /\ UNCHANGED threadVars

\* _adobe_create_asset
CreateAsset ==
    /\ pc = "asset"
    /\ Issue("asset")
    /\ \/ pc' = "upload" /\ UNCHANGED <<responses, exit_kind>>
       \/ RemoteFail("Adobe assets response missing uploadUri/assetID.")
       \/ RemoteFail("transport error")
    /\ UNCHANGED <<headVars, bodyVars, status_url, export_resp, clock, last_error, job_len,
                   job_end, last_poll, saw_http_error, served, data, proc_runs, cmd, result,
                   raised>>
    /\ UNCHANGED threadVars

\* _adobe_upload_asset
Upload ==
    /\ pc = "upload"
    /\ Issue("upload")
    /\ \/ pc' = "export" /\ UNCHANGED <<responses, exit_kind>>
       \/ RemoteFail("transport error")
    /\ UNCHANGED <<headVars, bodyVars, status_url, export_resp, clock, last_error, job_len,
                   job_end, last_poll, saw_http_error, served, data, proc_runs, cmd, result,
                   raised>>
    /\ UNCHANGED threadVars

(***************************************************************************)
(* _normalize_status_url (lines 92-100) and _adobe_export_pdf (103-125).   *)
(***************************************************************************)
BaseUrl == "https://base"
Locations == {None, "https://h/status/1", "/status/1", "status/1"}
BodyStatusUrls == {None, "https://h/status/1"}
RequestIds == {None, "rid"}

IsAbsolute(location) == location = "https://h/status/1"
StartsWithSlash(location) == location = "/status/1"
\* base_url.rstrip("/") + location
JoinBase(base, location) == "https://base/status/1"
\* f"{base_url.rstrip('/')}/operation/{operation}/{request_id}/status"
OperationUrl(base, operation, request_id) ==
    "https://base/operation/exportpdf/rid/status"

NormalizeStatusUrl(base, operation, location, request_id) ==
    IF location # None /\ IsAbsolute(location) THEN location
    ELSE IF location # None /\ StartsWithSlash(location)
         THEN JoinBase(base, location)
    ELSE IF request_id # None THEN OperationUrl(base, operation, request_id)
    ELSE None

\* faulty variant: the statusUrl of the body is not looked at
Either_HeaderOnly(x, y) == x

\* location or body.get("statusUrl")
Either(x, y) == IF x = None THEN y ELSE x

\* the request of _adobe_export_pdf and what it reads from the response
\* (lines 103-120)
ExportPdf ==
    /\ pc = "export"
    /\ Issue("export")
    /\ \/ \E loc \in Locations, burl \in BodyStatusUrls, rid \in RequestIds :
            /\ export_resp' = ExportResp(loc, burl, rid)
            /\ pc' = "export_url"
            /\ UNCHANGED <<responses, exit_kind>>
       \/ /\ RemoteFail("transport error")
          /\ UNCHANGED export_resp
    /\ UNCHANGED <<headVars, bodyVars, status_url, clock, last_error, job_len,
                   job_end, last_poll, saw_http_error, served, data, proc_runs,
                   cmd, result, raised>>
    /\ UNCHANGED threadVars

\* the status URL of the job (lines 121-125); with a URL the handler goes on
\* into _adobe_poll_status, where deadline = now + timeout_seconds
ExportStatusUrl ==
    /\ pc = "export_url"
    /\ LET url == NormalizeStatusUrl(BaseUrl, "exportpdf",
                      Either(export_resp.location, export_resp.statusUrl),
                      export_resp.request_id)
       IN  IF url = None
           THEN /\ RemoteFail("Adobe export response missing status URL.")
                /\ UNCHANGED <<status_url, job_len, job_end>>
           ELSE /\ status_url' = url
                /\ pc' = "poll"
                /\ job_end' \in JobEnds
                /\ job_len' \in IF job_end' = "never" THEN {0} ELSE JobLens
                /\ UNCHANGED <<responses, exit_kind>>
    \* the locals of _adobe_export_pdf are gone
    /\ export_resp' = NoExportResp
    /\ clock' = 0
    /\ last_error' = FALSE
    /\ UNCHANGED <<headVars, bodyVars, last_poll, saw_http_error, reqs, served,
                   data, proc_runs, cmd, result, raised>>
    /\ UNCHANGED threadVars

(***************************************************************************)
(* _adobe_poll_status (lines 128-171).  The clock counts the seconds since *)
(* the function was entered, so the deadline is TimeoutSeconds.  One       *)
(* action is one pass of the loop: the request, its result, and the sleep  *)
(* when the loop goes on.  The poll numbered i gets a non-terminal result  *)
(* (a status that goes on, or an HTTP error status) while i <= job_len and *)
(* a terminal status after that; a connection failure or a timeout of the  *)
(* call can happen at any poll.                                            *)
(***************************************************************************)
\* faulty variant: the status is compared without lower()
Classify_CaseSensitive(raw) ==
    IF raw \in {"done", "succeeded", "success"} THEN "success"
    ELSE IF raw \in {"failed", "error"} THEN "failure"
    ELSE "continue"

\* the classification of (data.get("status") or "").lower()
Classify(raw) ==
    IF StripLower(raw) \in {"done", "succeeded", "success"} THEN "success"
    ELSE IF StripLower(raw) \in {"failed", "error"} THEN "failure"
    ELSE "continue"

\* faulty variant: the message of the service is dropped
FailureText_Default(message) == "Adobe export job failed."

\* error.get("message") or "Adobe export job failed."
FailureText(message) ==
    IF message = None THEN "Adobe export job failed." ELSE message

\* what the loop raises once the deadline has passed (lines 169-171)
DeadlineText(stored) ==
    IF stored THEN "Adobe status polling failed: HTTPError"
    ELSE "Adobe status polling timed out."

\* the poll numbered i gets the terminal status of the job
Terminal(i) == job_end # "never" /\ i > job_len

\* faulty variant: the loop does not look at the clock
BeforeDeadline_Always == TRUE

\* the loop condition: time.time() < deadline
BeforeDeadline == clock < TimeoutSeconds

\* faulty variant: a poll that returns a status clears the stored error
StoredAfterStatus_Reset(stored) == FALSE

\* the stored error after a poll that returned a status: left as it is
StoredAfterStatus(stored) == stored

\* the function returns or raises: its locals (the deadline, the stored
\* error) are gone
LeavePoll == clock' = 0 /\ last_error' = FALSE

\* the poll raised urllib.error.HTTPError: stored, one sleep, next pass
PollHTTPError ==
    /\ pc = "poll"
    /\ BeforeDeadline
    /\ ~Terminal(reqs["poll"] + 1)
    /\ Issue("poll")
    /\ \E d \in PollDurations : clock' = clock + d + SleepSeconds
    /\ last_error' = TRUE
    /\ saw_http_error' = TRUE
    /\ last_poll' = Poll("HTTPError", "", FALSE, None)
    /\ UNCHANGED <<headVars, bodyVars, status_url, export_resp, job_len, job_end, served,
                   data, proc_runs, cmd, result, responses, raised, pc, exit_kind>>
    /\ UNCHANGED threadVars

\* the poll raised URLError (connection failure) or timed out: neither is
\* an HTTPError, so the exception leaves the loop and the function
PollAborts ==
    /\ pc = "poll"
    /\ BeforeDeadline
    /\ Issue("poll")
    /\ \E kind \in {"URLError", "timeout"} :
          /\ last_poll' = Poll(kind, "", FALSE, None)
          /\ RemoteFail(kind)
    /\ LeavePoll
    /\ UNCHANGED <<headVars, bodyVars, status_url, export_resp, job_len, job_end,
                   saw_http_error, served, data, proc_runs, cmd, result, raised>>
    /\ UNCHANGED threadVars

\* the poll returned a status document
PollStatus ==
    /\ pc = "poll"
    /\ BeforeDeadline
    /\ Issue("poll")
    /\ \E raw \in (IF ~Terminal(reqs["poll"] + 1) THEN NonTerminalStatuses
                   ELSE IF job_end = "failure" THEN FailureStatuses
                   ELSE SuccessStatuses) :
          CASE Classify(raw) = "success" ->
                 LET uri == (job_end = "success_uri") IN
                    /\ last_poll' = Poll("status", raw, uri, None)
                    /\ IF uri
                       THEN pc' = "download" /\ UNCHANGED <<responses, exit_kind>>
                       ELSE RemoteFail("Adobe status response missing downloadUri.")
                    /\ LeavePoll
            [] Classify(raw) = "failure" ->
                 \E message \in ErrorMessages :
                    /\ last_poll' = Poll("status", raw, FALSE, message)
                    /\ RemoteFail(FailureText(message))
                    /\ LeavePoll
            [] OTHER ->
                 /\ last_poll' = Poll("status", raw, FALSE, None)
                 /\ \E d \in PollDurations : clock' = clock + d + SleepSeconds
                 /\ last_error' = StoredAfterStatus(last_error)
                 /\ UNCHANGED <<pc, responses, exit_kind>>
    /\ UNCHANGED <<headVars, bodyVars, status_url, export_resp, job_len, job_end,
                   saw_http_error, served, data, proc_runs, cmd, result, raised>>
    /\ UNCHANGED threadVars

\* the loop condition fails: the deadline has passed
PollDeadline ==
    /\ pc = "poll"
    /\ ~BeforeDeadline
    /\ RemoteFail(DeadlineText(last_error))
    /\ LeavePoll
    /\ UNCHANGED <<headVars, bodyVars, status_url, export_resp, job_len, job_end,
                   last_poll, saw_http_error, reqs, served, data, proc_runs, cmd, result,
                   raised>>
    /\ UNCHANGED threadVars

\* _adobe_download (lines 174-178)
Download ==
    /\ pc = "download"
    /\ Issue("download")
    /\ \/ \E bytes \in DownloadBodies :
            /\ served' = bytes
            /\ data' = bytes
            /\ pc' = "exit_with"
            /\ exit_kind' = "normal"
            /\ UNCHANGED responses
       \/ RemoteFail("transport error") /\ UNCHANGED <<served, data>>
    /\ UNCHANGED <<headVars, bodyVars, status_url, export_resp, clock, last_error, job_len,
                   job_end, last_poll, saw_http_error, proc_runs, cmd, result, raised>>
    /\ UNCHANGED threadVars

(***************************************************************************)
(* The handler has returned; the server thread takes the next request.     *)
(***************************************************************************)
NextRequest ==
    /\ pc = "returned"
    /\ pc' = "idle"
    /\ path' = ""
    /\ target' = ""
    /\ length' = 0
    /\ source_ext' = ""
    /\ adobe_client_id' = None
    /\ adobe_client_secret' = None
    /\ requested_engine' = ""
    /\ use_adobe' = FALSE
    /\ soffice_exists' = "unread"
    /\ soffice' = None
    /\ tmpdir' = "none"
    /\ files' = NoFiles
    /\ remaining' = 0
    /\ total_read' = 0
    /\ delivered' = 0
    /\ read_end' = "none"
    /\ exit_kind' = "none"
    /\ export_resp' = NoExportResp
    /\ status_url' = None
    /\ clock' = 0
    /\ last_error' = FALSE
    /\ job_len' = 0
    /\ job_end' = "never"
    /\ last_poll' = NoPoll
    /\ saw_http_error' = FALSE
    /\ reqs' = [s \in RemoteSteps |-> 0]
    /\ served' = None
    /\ data' = None
    /\ proc_runs' = 0
    /\ cmd' = << >>
    /\ result' = NoResult
    /\ responses' = << >>
    /\ raised' = FALSE
    /\ UNCHANGED threadVars

Next ==
    \/ Route
    \/ ParseLength
    \/ SelectEngine
    \/ CheckSoffice
    \/ MakeTmpDir
    \/ ReadChunk
    \/ ReadEOF
    \/ ReadTimeout
    \/ ReadRaises
    \/ CheckBody
    \/ SofficeRaises
    \/ SofficeFails
    \/ SofficeExitsZero
    \/ CheckOutput
    \/ Token
    \/ CreateAsset
    \/ Upload
    \/ ExportPdf
    \/ ExportStatusUrl
    \/ PollHTTPError
    \/ PollAborts
    \/ PollStatus
    \/ PollDeadline
    \/ Download
    \/ ExitWith
    \/ SendOk
    \/ NextRequest

Spec == Init /\ [][Next]_vars

(***************************************************************************)
(* The server's threads (main, lines 350-353).  ThreadingHTTPServer runs   *)
(* do_POST of every request on a thread of its own.  This view keeps, of   *)
(* each handler, what it does to the file system: the directory of the     *)
(* with block (line 250), the input file written into it (251-263), the    *)
(* conversion that reads the input and writes the output there (273,       *)
(* 297-318), the read of the output (328-334) and the removal of the       *)
(* directory when the block is left.  Every path the handler uses is       *)
(* os.path.join(tmpdir, ...), so a thread touches the directory whose name *)
(* it holds and nothing else.                                              *)
(***************************************************************************)
File(name, owner) == [name |-> name, owner |-> owner]

\* f"input.{source_ext}" and f"input.{target}": the same names in every request
InputName == "input.ext"
OutputName == "input.target"

\* faulty variant: the name is not checked against the directories there are
FreshNames_Any(fs) == DirNames

\* mkdtemp draws names until os.mkdir succeeds, and mkdir fails on a name
\* that exists
FreshNames(fs) == DirNames \ DOMAIN fs

DirFiles(d) == IF d \in DOMAIN disk THEN disk[d] ELSE {}

\* open(path, "wb") and write: the file of that name is replaced
WriteFile(dir_files, name, t) ==
    {f \in dir_files : f.name # name} \cup {File(name, t)}

\* thread t touches, under one of the names, a file another thread wrote
Touches(dir_files, names, t) ==
    \E f \in dir_files : f.name \in names /\ f.owner # t

\* tempfile.TemporaryDirectory() (line 250)
ThreadMkdtemp(t) ==
    /\ thread_pc[t] = "idle"
    /\ \E d \in FreshNames(disk) :
          /\ disk' = IF d \in DOMAIN disk THEN disk ELSE (d :> {}) @@ disk
          /\ thread_tmpdir' = [thread_tmpdir EXCEPT ![t] = d]
    /\ thread_dirs' = [thread_dirs EXCEPT ![t] = @ + 1]
    /\ thread_pc' = [thread_pc EXCEPT ![t] = "made"]
    /\ UNCHANGED foreign_access
    /\ UNCHANGED handlerVars

\* the input file is written (lines 251-263)
ThreadWriteInput(t) ==
    /\ thread_pc[t] = "made"
    /\ LET d == thread_tmpdir[t] IN
       IF d \in DOMAIN disk
       THEN /\ disk' = [disk EXCEPT ![d] = WriteFile(@, InputName, t)]
            /\ foreign_access' = (foreign_access \/ Touches(disk[d], {InputName}, t))
            /\ thread_pc' = [thread_pc EXCEPT ![t] = "written"]
       ELSE \* open raises: the directory is gone
            /\ thread_pc' = [thread_pc EXCEPT ![t] = "closing"]
            /\ UNCHANGED <<disk, foreign_access>>
    /\ UNCHANGED <<thread_tmpdir, thread_dirs>>
    /\ UNCHANGED handlerVars

\* the conversion reads the input file and may write the output file into
\* the same directory (lines 273 and 297-318)
ThreadConvert(t) ==
    /\ thread_pc[t] = "written"
    /\ LET d == thread_tmpdir[t] IN
       \E wrote \in BOOLEAN :
          LET names == IF wrote THEN {InputName, OutputName} ELSE {InputName}
          IN  /\ disk' = IF wrote /\ d \in DOMAIN disk
                         THEN [disk EXCEPT ![d] = WriteFile(@, OutputName, t)]
                         ELSE disk
              /\ foreign_access' = (foreign_access \/ Touches(DirFiles(d), names, t))
    /\ thread_pc' = [thread_pc EXCEPT ![t] = "converted"]
    /\ UNCHANGED <<thread_tmpdir, thread_dirs>>
    /\ UNCHANGED handlerVars

\* the output file is looked for and read (lines 328-334)
ThreadReadOutput(t) ==
    /\ thread_pc[t] = "converted"
    /\ foreign_access' =
          (foreign_access \/ Touches(DirFiles(thread_tmpdir[t]), {OutputName}, t))
    /\ thread_pc' = [thread_pc EXCEPT ![t] = "closing"]
    /\ UNCHANGED <<thread_tmpdir, thread_dirs, disk>>
    /\ UNCHANGED handlerVars

\* an error response or an exception inside the with block (lines 252-326)
ThreadLeaves(t) ==
    /\ thread_pc[t] \in {"made", "written"}
    /\ thread_pc' = [thread_pc EXCEPT ![t] = "closing"]
    /\ UNCHANGED <<thread_tmpdir, thread_dirs, disk, foreign_access>>
    /\ UNCHANGED handlerVars

\* TemporaryDirectory.__exit__ removes the directory of that name with all
\* that is in it; the handler returns
ThreadCleanup(t) ==
    /\ thread_pc[t] = "closing"
    /\ LET d == thread_tmpdir[t] IN
          /\ foreign_access' =
                (foreign_access \/ Touches(DirFiles(d), {InputName, OutputName}, t))
          /\ disk' = [x \in DOMAIN disk \ {d} |-> disk[x]]
    /\ thread_tmpdir' = [thread_tmpdir EXCEPT ![t] = NoDir]
    /\ thread_dirs' = [thread_dirs EXCEPT ![t] = 0]
    /\ thread_pc' = [thread_pc EXCEPT ![t] = "idle"]
    /\ UNCHANGED handlerVars

ThreadNext ==
    \E t \in Threads :
        \/ ThreadMkdtemp(t)
        \/ ThreadWriteInput(t)
        \/ ThreadConvert(t)
        \/ ThreadReadOutput(t)
        \/ ThreadLeaves(t)
        \/ ThreadCleanup(t)

ThreadSpec == Init /\ [][ThreadNext]_vars

(***************************************************************************)
(* Progress of the poll loop.  A pass of the loop is one status request    *)
(* with its result and the sleep after it, or the test that ends the loop. *)
(* Every request of the loop has a timeout (timeout=30, line 142) and      *)
(* time.sleep returns, so a pass that can be taken is taken.               *)
(***************************************************************************)
PollPass == PollHTTPError \/ PollAborts \/ PollStatus \/ PollDeadline

FairSpec == Spec /\ WF_vars(PollPass)

(***************************************************************************)
(* Properties.                                                             *)
(***************************************************************************)
\* the handler got past routing, the target and the Content-Length check,
\* and has read the engine header
Selecting == path = "/convert" /\ target # "" /\ length > 0
             /\ pc \notin {"idle", "parse_length", "select"}

\* remote eligibility, as the specification states it
Eligible ==
    /\ adobe_client_id \notin {None, ""}
    /\ adobe_client_secret \notin {None, ""}
    /\ source_ext = "pdf"
    /\ target \in {"docx", "pptx", "xlsx"}

NoRemoteCall == \A s \in RemoteSteps : reqs[s] = 0

Sent == {responses[i] : i \in 1 .. Len(responses)}

\* C1: with no X-Conversion-Engine header (requested engine auto) the
\* request is handled by the remote engine if and only if client id and
\* client secret are both present, the source extension is "pdf" and the
\* target is docx, pptx or xlsx; in every other case by the local engine.
C1_AutoSelection ==
    (Selecting /\ requested_engine = "") =>
        /\ use_adobe = Eligible
        /\ use_adobe => (proc_runs = 0 /\ soffice_exists = "unread")
        /\ ~use_adobe => /\ NoRemoteCall
                         /\ pc # "check_soffice" => soffice_exists # "unread"

C1_Witness ==
    /\ Selecting /\ requested_engine = "" /\ Eligible
    /\ pc = "returned" /\ reqs["download"] = 1
    /\ Len(responses) = 1 /\ responses[1].status = 200

\* C2: when the remote engine is requested (X-Conversion-Engine: adobe) and
\* remote eligibility does not hold, the request ends in a 400 response,
\* and no temporary directory, local subprocess or remote call is made for
\* it: there is no fallback to the local engine.
C2_RemoteRequestRejected ==
    (requested_engine = "adobe" /\ ~Eligible) =>
        /\ pc = "returned"
        /\ Len(responses) = 1 /\ responses[1].status = 400
        /\ ~use_adobe
        /\ tmpdir = "none" /\ proc_runs = 0 /\ NoRemoteCall
        /\ soffice_exists = "unread"

C2_Witness ==
    /\ requested_engine = "adobe" /\ source_ext = "pdf" /\ target = "docx"
    /\ adobe_client_id = "set" /\ adobe_client_secret = None
    /\ pc = "returned"

\* the read loop is over and the length check after it has been made
BodyChecked == read_end \in {"complete", "eof", "timeout"} /\ pc # "check_body"

\* C3: when the stream delivers exactly the declared length, in any split
\* into chunks, ingestion succeeds (no error response for the body); when
\* the stream ends or the read times out after fewer bytes, the request
\* fails with a 400 that reports the bytes delivered and the declared
\* length, and neither the local subprocess nor a remote call is made.
C3_Ingestion ==
    /\ (BodyChecked /\ delivered = length) =>
          /\ read_end = "complete"
          /\ \A r \in Sent : r.status # 400
          /\ files = (source_ext :> "body") \/ pc \in {"check_output", "exit_with", "send_ok", "returned"}
    /\ (BodyChecked /\ read_end \in {"eof", "timeout"}) =>
          /\ delivered < length
          /\ responses = << Response(400, Msg("Incomplete request body", delivered, length, ""), None) >>
          /\ pc \in {"exit_with", "returned"}
          /\ proc_runs = 0 /\ NoRemoteCall

C3_Witness ==
    /\ pc = "returned" /\ read_end = "timeout"
    /\ delivered = 1 /\ length = 2
    /\ Len(responses) = 1 /\ responses[1].status = 400

\* C4: once the handler has returned, by any exit path (an exception that
\* leaves it included), the temporary directory and every file in it no
\* longer exist.
C4_NoTmpAfterReturn ==
    pc = "returned" => (tmpdir # "exists" /\ files = NoFiles)

C4_Witness ==
    pc = "returned" /\ raised /\ tmpdir = "deleted" /\ read_end = "error"

\* C5, as claimed: on every exit path that created the temporary directory
\* the directory is deleted before the response of the request is sent, so
\* no response has been sent while the directory exists.
C5_DeletedBeforeAnyResponse ==
    Len(responses) > 0 => tmpdir # "exists"

\* C5, amended: the 200 response is sent after the directory was deleted;
\* an error response of a request that created the directory is sent while
\* the directory still exists, and the directory is deleted after it.
C5_DeletedBeforeOkOnly ==
    /\ [](\A r \in Sent : r.status = 200 => tmpdir = "deleted")
    /\ [][(Len(responses') > Len(responses) /\ tmpdir # "none"
             /\ responses'[Len(responses')].status # 200)
          => (tmpdir = "exists" /\ tmpdir' = "exists" /\ pc' = "exit_with")]_vars
    /\ [][(pc = "exit_with" /\ pc' # "exit_with") => tmpdir' = "deleted"]_vars

C5_Witness ==
    /\ Len(responses) = 1 /\ responses[1].status = 500
    /\ tmpdir = "exists" /\ pc = "exit_with" /\ proc_runs = 1

\* polling was started for a job that gives job_len non-terminal statuses
\* and then a success status carrying a download URI, and every poll made
\* returned a status
SuccessScript ==
    /\ reqs["export"] = 1 /\ status_url # None
    /\ job_end = "success_uri"
    /\ ~saw_http_error
    /\ last_poll.kind \notin {"URLError", "timeout"}

\* the most recent poll returned a success status carrying a download URI
SuccessSeen ==
    /\ last_poll.kind = "status"
    /\ last_poll.status \in {"done", "Succeeded", "SUCCESS"}
    /\ last_poll.uri

\* C6, as claimed: for any sequence of n non-terminal statuses followed by
\* a success status with a download URI, polling stops at exactly poll
\* n+1, the download is requested exactly once and a 200 response carries
\* exactly the downloaded bytes.
C6_AnySequenceReachesSuccess ==
    (pc = "returned" /\ SuccessScript) =>
        /\ reqs["poll"] = job_len + 1
        /\ reqs["download"] = 1
        /\ \A r \in Sent : r.status = 200 => r.body = served

\* C6, amended: when poll n+1 is made before the deadline and returns the
\* success status with a download URI (in any letter case), no further
\* status request is made, the download is requested exactly once, and
\* when the download succeeds the response is a 200 whose body is exactly
\* the downloaded bytes (a failed download ends in a 500).
C6_SuccessStopsPolling ==
    SuccessSeen =>
        /\ reqs["poll"] = job_len + 1
        /\ pc \in {"download", "exit_with", "send_ok", "returned"}
        /\ reqs["download"] = IF pc = "download" THEN 0 ELSE 1
        /\ (pc = "returned" /\ served # None) =>
               responses = << Response(200, Msg("OK", 0, 0, ""), served) >>
        /\ (pc = "returned" /\ served = None) =>
               (Len(responses) = 1 /\ responses[1].status = 500)

C6_Witness ==
    /\ pc = "returned" /\ SuccessSeen /\ last_poll.status = "Succeeded"
    /\ job_len = 2 /\ reqs["poll"] = 3 /\ reqs["download"] = 1
    /\ served = "docB"
    /\ Len(responses) = 1 /\ responses[1].status = 200
    /\ responses[1].body = "docB"

\* the most recent poll returned a failure status
FailureSeen ==
    /\ last_poll.kind = "status"
    /\ last_poll.status \in {"failed", "Error"}

\* C7: the first poll whose status is failed or error (in any letter case)
\* ends polling at once: no further status request, no download request,
\* and the request ends in a 500 whose diagnostic carries the error message
\* the remote service gave in that status response.
C7_FailureStopsPolling ==
    FailureSeen =>
        /\ reqs["poll"] = job_len + 1
        /\ reqs["download"] = 0
        /\ pc \in {"exit_with", "returned"}
        /\ Len(responses) = 1 /\ responses[1].status = 500
        /\ last_poll.message # None => responses[1].msg.text = last_poll.message

C7_Witness ==
    /\ pc = "returned" /\ FailureSeen /\ last_poll.status = "Error"
    /\ last_poll.message = "quota exceeded"
    /\ reqs["poll"] = 3
    /\ responses[1].msg.text = "quota exceeded"

TimedOutText == "Adobe status polling timed out."
TransportText == "Adobe status polling failed: HTTPError"

\* C8, as claimed: at the deadline the failure is the transport error
\* exactly when the final poll before the deadline ended in a transport
\* error; a run whose last polls returned a non-terminal status ends with
\* the timeout even if an earlier poll had a transport error.
C8_TransportOnlyIfFinalPoll ==
    \A r \in Sent :
        r.msg.text \in {TimedOutText, TransportText} =>
            (r.msg.text = TransportText <=> last_poll.kind = "HTTPError")

\* C8, amended: at the deadline the failure is the transport error exactly
\* when some poll before the deadline ended in an HTTP error status,
\* whatever the later polls returned, and the timeout otherwise.
C8_TransportIfAnyPoll ==
    \A r \in Sent :
        r.msg.text \in {TimedOutText, TransportText} =>
            /\ r.status = 500
            /\ ~SuccessSeen /\ ~FailureSeen
            /\ last_poll.kind \in {"status", "HTTPError"}
            /\ r.msg.text = TransportText <=> saw_http_error

C8_Witness ==
    /\ pc = "returned" /\ Len(responses) = 1
    /\ responses[1].msg.text = TransportText
    /\ last_poll.kind = "status" /\ saw_http_error

\* C9: a transport error on a single status poll before the deadline (an
\* HTTP error status, a connection failure or a timeout of the call) never
\* aborts the remote workflow: polling goes on, and the only failure that
\* can follow such a poll is the one at the deadline.
C9_TransportErrorsSwallowed ==
    last_poll.kind \in {"HTTPError", "URLError", "timeout"} =>
        \/ pc = "poll"
        \/ \A r \in Sent : r.msg.text \in {TimedOutText, TransportText}

\* C10: every request that fails at any step ends with exactly one HTTP
\* error response, so no handler returns with zero responses or with more
\* than one.
C10_ExactlyOneResponse ==
    pc = "returned" => Len(responses) = 1

NoBackend == tmpdir = "none" /\ delivered = 0 /\ proc_runs = 0 /\ NoRemoteCall

C12_BadLengthRejected ==
    (path = "/convert" /\ target # "" /\ length <= 0
       /\ pc \notin {"idle", "parse_length"}) =>
        /\ pc = "returned"
        /\ Len(responses) = 1
        /\ responses[1].status = 400
        /\ responses[1].msg.kind \in {"Invalid Content-Length", "Empty body"}
        /\ source_ext = "" /\ requested_engine = ""
        /\ adobe_client_id = None /\ adobe_client_secret = None
        /\ soffice_exists = "unread"
        /\ NoBackend

C12_Witness ==
    /\ pc = "returned" /\ path = "/convert" /\ target = "docx"
    /\ length = -1
    /\ responses = <<Response(400, Msg("Empty body", 0, 0, ""), None)>>

NotFoundResponse ==
    Response(500, Msg("LibreOffice soffice not found in PATH", 0, 0, ""), None)

\* C13: with no credentials and no engine header a pdf-to-docx request
\* selects the local engine, and if the local binary does not exist the
\* request ends in the 500 "soffice not found" response before any body
\* byte is read or directory made; when the remote engine is selected the
\* binary is not looked for and that response is never sent.
C13_BinaryCheckedForLocalOnly ==
    /\ (Selecting /\ requested_engine = "" /\ source_ext = "pdf"
          /\ target = "docx"
          /\ ~Truthy(adobe_client_id) /\ ~Truthy(adobe_client_secret)) =>
            /\ ~use_adobe
            /\ soffice_exists = "no" =>
                  /\ pc = "returned"
                  /\ responses = <<NotFoundResponse>>
                  /\ NoBackend
    /\ use_adobe => soffice_exists = "unread"
    /\ NotFoundResponse \in Sent =>
          ~use_adobe /\ soffice_exists = "no" /\ NoBackend

C13_Witness ==
    /\ pc = "returned" /\ source_ext = "pdf" /\ target = "docx"
    /\ adobe_client_id = None /\ adobe_client_secret = None
    /\ requested_engine = "" /\ soffice_exists = "no"
    /\ responses = <<NotFoundResponse>>

StepOrder == <<"token", "asset", "upload", "export", "poll", "download">>

StepIndex(s) == CHOOSE i \in 1 .. Len(StepOrder) : StepOrder[i] = s

RemoteFailed(r) == r.msg.kind = "Adobe PDF Services conversion failed"

\* C14: the remote steps run in the order token, asset, upload, export,
\* poll, download: a request of a step is issued only when every earlier
\* step has been requested, no later step has, and nothing has failed; a
\* failure of a step is answered with a 500 and the with block is left; and
\* once a response has been sent no request is issued any more.
C14_RemoteStepsInOrder ==
    [][ /\ \A s \in RemoteSteps :
              reqs'[s] > reqs[s] =>
                 /\ reqs'[s] = reqs[s] + 1
                 /\ use_adobe /\ Len(responses) = 0
                 /\ s # "poll" => reqs[s] = 0
                 /\ \A e \in RemoteSteps :
                       /\ StepIndex(e) < StepIndex(s) => reqs[e] >= 1
                       /\ StepIndex(e) > StepIndex(s) => reqs[e] = 0
        /\ (Len(responses') > Len(responses)
              /\ RemoteFailed(responses'[Len(responses')])) =>
                 /\ responses'[Len(responses')].status = 500
                 /\ Len(responses') = 1
                 /\ pc' = "exit_with" /\ exit_kind' = "return"
        /\ (Len(responses) > 0 /\ pc' # "idle") => reqs' = reqs
      ]_vars

C14_Witness ==
    /\ pc = "returned" /\ Len(responses) = 1
    /\ responses[1].status = 500 /\ RemoteFailed(responses[1])
    /\ reqs = [s \in RemoteSteps |->
                 IF s \in {"token", "asset", "upload"} THEN 1 ELSE 0]

MissingStatusUrl == "Adobe export response missing status URL."

ExportFailed == pc = "exit_with" /\ Len(responses) = 1
                /\ responses[1].msg.text = MissingStatusUrl

\* C15, as claimed: the status URL is the location header when it is
\* absolute, the base URL joined with it when it is relative, and otherwise
\* the URL built from the request-id header; the step fails for want of a
\* status URL exactly when both headers are absent.
C15_StatusUrlFromHeaders ==
    [][ pc = "export_url" =>
          LET loc == export_resp.location
              rid == export_resp.request_id
          IN  /\ ExportFailed' <=> (loc = None /\ rid = None)
              /\ ~ExportFailed' =>
                    status_url' =
                       IF loc = None
                       THEN "https://base/operation/exportpdf/rid/status"
                       ELSE IF IsAbsolute(loc) THEN loc
                       ELSE "https://base/status/1"
      ]_vars

\* C15, amended: the location is the location header or, without one, the
\* statusUrl of the response body; the status URL is that location when it
\* is absolute, the base URL followed by it when it starts with "/", and
\* otherwise the URL built from the request-id header; the step fails for
\* want of a status URL exactly when the location is neither absolute nor
\* starts with "/" and the request-id header is absent.
C15_StatusUrlFromLocationOrBody ==
    [][ pc = "export_url" =>
          LET loc == IF export_resp.location # None THEN export_resp.location
                     ELSE export_resp.statusUrl
              rid == export_resp.request_id
              usable == loc # None /\ (IsAbsolute(loc) \/ StartsWithSlash(loc))
          IN  /\ ExportFailed' <=> (~usable /\ rid = None)
              /\ ExportFailed' => responses'[1].status = 500
              /\ ~ExportFailed' =>
                    /\ pc' = "poll"
                    /\ Len(responses') = 0
                    /\ status_url' =
                          IF usable /\ IsAbsolute(loc) THEN loc
                          ELSE IF usable THEN "https://base/status/1"
                          ELSE "https://base/operation/exportpdf/rid/status"
      ]_vars

C15_Witness ==
    /\ pc = "poll" /\ reqs["poll"] = 0
    /\ status_url = "https://base/operation/exportpdf/rid/status"

LocalFailed(r) == r.msg.kind = "LibreOffice conversion failed"

\* C16, as claimed: when the subprocess exits with a non-zero code the 500
\* response carries the last 1000 characters of its stderr text (the whole
\* text when it has 1000 characters or fewer).
C16_LastThousand ==
    result.returncode = "nonzero" =>
        /\ Len(responses) = 1
        /\ responses[1].status = 500 /\ LocalFailed(responses[1])
        /\ LET n == result.stderr_len IN
              /\ responses[1].msg.b = n
              /\ responses[1].msg.a =
                    IF n = 0 THEN 0
                    ELSE IF n <= StderrLimit THEN 1
                    ELSE n - StderrLimit + 1

\* C16, amended: when the subprocess exits with a non-zero code the 500
\* response carries the first 1000 characters of its stderr text (the whole
\* text when it has 1000 characters or fewer).
C16_FirstThousand ==
    result.returncode = "nonzero" =>
        /\ Len(responses) = 1
        /\ responses[1].status = 500 /\ LocalFailed(responses[1])
        /\ LET n == result.stderr_len IN
              /\ responses[1].msg.a = (IF n = 0 THEN 0 ELSE 1)
              /\ responses[1].msg.b = (IF n <= StderrLimit THEN n ELSE StderrLimit)

C16_Witness ==
    /\ pc = "returned" /\ result.returncode = "nonzero"
    /\ result.stderr_len = StderrLimit + 1
    /\ Len(responses) = 1 /\ responses[1].msg.b = StderrLimit

\* C17: when the subprocess exits with code zero and has written no output
\* file, the request fails with the 500 "Converted file not found" response
\* and never with a 200, whatever the source extension and the target,
\* also when they are equal.
C17_NoOutputNever200 ==
    (result.returncode = "zero" /\ ~result.wrote
       /\ pc \in {"exit_with", "send_ok", "returned"}) =>
        /\ responses =
              <<Response(500, Msg("Converted file not found", 0, 0, ""), None)>>
        /\ exit_kind = "return"

InFilterArgs ==
    {Arg("--infilter=impress_pdf_import"), Arg("--infilter=writer_pdf_import"),
     Arg("--infilter=calc_pdf_import")}

\* C18: the argument list of the local engine is determined by the binary
\* path, the source extension, the target and the directory: the output
\* filter is the table entry for docx, xlsx and pptx and the target itself
\* otherwise; an input filter is in the list exactly when the source
\* extension is pdf and the target is ppt, pptx, docx or xlsx (impress,
\* impress, writer, calc), and then it is the argument right before
\* --convert-to.
C18_ArgumentList ==
    proc_runs > 0 =>
        LET has == source_ext = "pdf" /\ target \in {"ppt", "pptx", "docx", "xlsx"}
            c == IF has THEN 7 ELSE 6
            filter == CASE target = "docx" -> "docx:MS Word 2007 XML"
                        [] target = "xlsx" -> "xlsx:Calc MS Excel 2007 XML"
                        [] target = "pptx" -> "pptx:Impress MS PowerPoint 2007 XML"
                        [] OTHER -> target
            import == CASE target \in {"ppt", "pptx"} -> "impress"
                        [] target = "docx" -> "writer"
                        [] target = "xlsx" -> "calc"
                        [] OTHER -> "none"
        IN  /\ Len(cmd) = c + 4
            /\ SubSeq(cmd, 1, 5) =
                  <<Arg(soffice), Arg("--headless"), Arg("--nologo"),
                    Arg("--nolockcheck"), Arg("--norestore")>>
            /\ SubSeq(cmd, c, c + 4) =
                  <<Arg("--convert-to"), Arg(filter), Arg("--outdir"),
                    Arg(TmpDirName), <<TmpDirName, "/input.", source_ext>> >>
            /\ has =>
                  cmd[6] = CASE import = "impress" -> Arg("--infilter=impress_pdf_import")
                             [] import = "writer" -> Arg("--infilter=writer_pdf_import")
                             [] import = "calc" -> Arg("--infilter=calc_pdf_import")
            /\ \A i \in 1 .. Len(cmd) :
                  cmd[i] \in InFilterArgs =>
                     has /\ i < Len(cmd) /\ cmd[i + 1] = Arg("--convert-to")

C18_Witness ==
    /\ proc_runs = 1 /\ source_ext = "pdf" /\ target = "ppt"
    /\ Len(cmd) = 11 /\ cmd[6] = Arg("--infilter=impress_pdf_import")
    /\ cmd[7] = Arg("--convert-to") /\ cmd[8] = Arg("ppt")

InFlight(t) == thread_pc[t] # "idle"

\* C19: with requests handled on several threads at once, every request in
\* flight has made at most one directory, no two requests in flight hold
\* the same directory, every file in the directory of a request was written
\* by that request, and no write, read, conversion or cleanup of a request
\* has touched a file another request wrote, although the files have the
\* same names in every request.
C19_DirectoriesNotShared ==
    /\ \A t \in Threads :
          /\ thread_dirs[t] <= 1
          /\ InFlight(t) <=> thread_tmpdir[t] # NoDir
          /\ InFlight(t) =>
                /\ thread_tmpdir[t] \in DOMAIN disk
                /\ \A f \in disk[thread_tmpdir[t]] : f.owner = t
    /\ \A t1, t2 \in Threads :
          (t1 # t2 /\ InFlight(t1) /\ InFlight(t2)) =>
             thread_tmpdir[t1] # thread_tmpdir[t2]
    /\ ~foreign_access

C19_Witness ==
    \E t1, t2 \in Threads :
        /\ t1 # t2
        /\ thread_pc[t1] = "closing" /\ thread_pc[t2] = "converted"
        /\ File(InputName, t1) \in disk[thread_tmpdir[t1]]
        /\ File(OutputName, t1) \in disk[thread_tmpdir[t1]]
        /\ File(InputName, t2) \in disk[thread_tmpdir[t2]]
        /\ File(OutputName, t2) \in disk[thread_tmpdir[t2]]

\* how a pass that ends the poll loop ended it
PollOutcomes ==
    LET ended == Len(responses') = Len(responses) + 1 /\ pc' = "exit_with"
        text == responses'[Len(responses')].msg.text
    IN  {o \in {"success", "job failure", "missing uri", "timeout", "transport"} :
           CASE o = "success" ->
                  /\ pc' = "download" /\ responses' = responses
                  /\ Classify(last_poll'.status) = "success" /\ last_poll'.uri
             [] o = "job failure" ->
                  /\ ended /\ reqs' # reqs /\ last_poll'.kind = "status"
                  /\ Classify(last_poll'.status) = "failure"
                  /\ text = FailureText(last_poll'.message)
             [] o = "missing uri" ->
                  /\ ended /\ reqs' # reqs /\ last_poll'.kind = "status"
                  /\ Classify(last_poll'.status) = "success" /\ ~last_poll'.uri
                  /\ text = "Adobe status response missing downloadUri."
             [] o = "timeout" ->
                  /\ ended /\ reqs' = reqs /\ clock >= TimeoutSeconds
                  /\ text \in {TimedOutText, TransportText}
             [] o = "transport" ->
                  /\ ended /\ reqs' # reqs
                  /\ last_poll'.kind \in {"URLError", "timeout"}
                  /\ text = last_poll'.kind}

\* C20: when every pass of the poll loop that can be taken is taken, the
\* loop ends; it ends in exactly one of success, failure of the remote job,
\* a missing download URI, the timeout and a transport error; and no status
\* request is started once 180 seconds have passed since the loop began.
C20_PollingTerminates ==
    /\ (pc = "poll") ~> (pc # "poll")
    /\ [][ /\ reqs'["poll"] > reqs["poll"] => clock < TimeoutSeconds
           /\ (pc = "poll" /\ pc' # "poll") => Cardinality(PollOutcomes) = 1
         ]_vars

C20_Witness ==
    /\ pc = "exit_with" /\ Len(responses) = 1
    /\ responses[1].msg.text = TimedOutText
    /\ reqs["poll"] = TimeoutSeconds

=============================================================================
